---- MODULE Spec2Model ----
(***************************************************************************)
(* discord-better-menus: the page sources (ListPageSource,                 *)
(* AsyncIteratorPageSource), PageSource.prepare_page and the Paginator     *)
(* view (send_page, fill_items, get_page_index, quit and the button        *)
(* callbacks) of src/discord/ext/better_menus/__init__.py.                 *)
(***************************************************************************)
EXTENDS Integers, Sequences, FiniteSets, TLC

(* ------------------------------ bounds --------------------------------- *)

\* Paginator sessions: longest collection and largest page size explored.
MaxEntries == 3
MaxPerPage == 2
\* Direct calls on a ListPageSource: longest list, largest page size.
MaxListLen == 25
MaxListPerPage == 10
\* Direct calls on an AsyncIteratorPageSource: items the producer yields.
MaxYield == 2
\* Page indices -MaxIndex..MaxIndex are passed to get_page / prepare_page.
MaxIndex == 2
\* Overlapping button presses on an iterator source: items the producer yields.
MaxConcYield == 3

(* ----------------------------- constants ------------------------------- *)

\* class PageGoTo(IntEnum)
FIRST_PAGE == 1
LAST_PAGE == 2
NEXT_PAGE == 3
PREVIOUS_PAGE == 4
CURRENT_PAGE == 5
PageGoTo == {FIRST_PAGE, LAST_PAGE, NEXT_PAGE, PREVIOUS_PAGE, CURRENT_PAGE}

\* Python's None (no message yet, no interaction given).
None == "None"

\* The session owner (ctx.author) and some other member of the channel.
Owner == "owner"
Other == "other"
Users == {Owner, Other}

\* The five buttons discord.ui.View creates from the @discord.ui.button
\* callbacks, in definition order.
Buttons ==
  <<"go_to_first_page", "go_to_previous_page", "go_to_next_page",
    "go_to_last_page", "quit_pagination">>
ButtonSet == {Buttons[i] : i \in 1..Len(Buttons)}
Navigation == {"go_to_first_page", "go_to_previous_page", "go_to_next_page", "go_to_last_page"}

VARIABLES
  source_kind,          \* "list" (ListPageSource) or "iterator" (AsyncIteratorPageSource)
  entries,              \* ListPageSource.entries, or all the items the iterator yields
  per_page,             \* PageSource.per_page
  current_page,         \* PageSource.current_page
  consumed,             \* how many items self.iterator has yielded so far
  cache,                \* AsyncIteratorPageSource._cache
  pulled_for,           \* history: the indices get_page pulled a page for, in order
  num_entries,          \* what get_num_entries() returns
  allow_first_and_last, \* Paginator.allow_first_and_last
  ctx_interaction,      \* Paginator.ctx.interaction (None for a prefix command)
  message,              \* Paginator.message
  children,             \* View.children, in order
  disabled,             \* Button.disabled of each button object
  stopped,              \* View.stop() has been called
  shown,                \* what the channel shows: the last delivered render
  tasks,                \* the send_page coroutines of button presses, by task
  lastOp                \* the call just made, what it resolved to and returned

vars ==
  <<source_kind, entries, per_page, current_page, consumed, cache, pulled_for, num_entries,
    allow_first_and_last, ctx_interaction, message, children, disabled,
    stopped, shown, tasks, lastOp>>

sourceVars == <<source_kind, entries, per_page, num_entries>>
viewVars == <<allow_first_and_last, ctx_interaction, message, children, disabled, stopped, shown>>

(* --------------------------- pure helpers ------------------------------ *)

Min(a, b) == IF a < b THEN a ELSE b
Max(a, b) == IF a > b THEN a ELSE b

\* range(n) as a list: <<0, 1, ..., n-1>>
Range(n) == [i \in 1..n |-> i - 1]

\* Python's s[start:end] for a list s (step 1): a negative bound counts from
\* the end, both bounds are clipped to 0..len(s).
PySlice(s, start, end) ==
  LET n  == Len(s)
      lo == IF start < 0 THEN Max(start + n, 0) ELSE Min(start, n)
      hi == IF end < 0 THEN Max(end + n, 0) ELSE Min(end, n)
  IN  IF lo >= hi THEN << >> ELSE SubSeq(s, lo + 1, hi)

\* str(n) for an integer n >= 0
Digits == <<"0", "1", "2", "3", "4", "5", "6", "7", "8", "9">>
RECURSIVE Str(_)
Str(n) == IF n < 10 THEN Digits[n + 1] ELSE Str(n \div 10) \o Digits[(n % 10) + 1]

\* math.ceil(a / b) for b > 0
Ceil(a, b) == -((-a) \div b)

(* ----------------------------- the sources ----------------------------- *)

\* ListPageSource.get_page
ListPageSource_get_page(page) ==
  LET start == page * per_page
      end   == start + per_page
  IN  PySlice(entries, start, end)

\* Mutant of the loop of AsyncIteratorPageSource.get_page: the break tests
\* counter > per_page (for ==), so one item too many is pulled.
RECURSIVE Pull_one_more(_, _, _)
Pull_one_more(data, counter, it) ==
  IF it >= Len(entries)
    THEN [data |-> data, consumed |-> it]
    ELSE LET data2    == Append(data, entries[it + 1])
             counter2 == counter + 1
         IN  IF counter2 > per_page
               THEN [data |-> data2, consumed |-> it + 1]
               ELSE Pull_one_more(data2, counter2, it + 1)

\* The loop of AsyncIteratorPageSource.get_page: pull items from the iterator,
\* which stands after `it` items, until per_page were collected or it is exhausted.
RECURSIVE Pull(_, _, _)
Pull(data, counter, it) ==
  IF it >= Len(entries)
    THEN [data |-> data, consumed |-> it]
    ELSE LET data2    == Append(data, entries[it + 1])
             counter2 == counter + 1
         IN  IF counter2 = per_page
               THEN [data |-> data2, consumed |-> it + 1]
               ELSE Pull(data2, counter2, it + 1)

\* Mutant of AsyncIteratorPageSource.get_page: the cache is written but never
\* looked up.
AsyncIteratorPageSource_get_page_no_lookup(page) ==
  IF page < 0
    THEN [data |-> << >>, cache |-> cache, consumed |-> consumed]
  ELSE LET pulled == Pull(<< >>, 0, consumed)
       IN  [data     |-> pulled.data,
            cache    |-> [k \in DOMAIN cache \cup {page} |->
                            IF k = page THEN pulled.data ELSE cache[k]],
            consumed |-> pulled.consumed]

\* AsyncIteratorPageSource.get_page: the page returned, and the cache and the
\* iterator position it leaves.
AsyncIteratorPageSource_get_page(page) ==
  IF page < 0
    THEN [data |-> << >>, cache |-> cache, consumed |-> consumed]
  ELSE IF page \in DOMAIN cache
    THEN [data |-> cache[page], cache |-> cache, consumed |-> consumed]
  ELSE LET pulled == Pull(<< >>, 0, consumed)
       IN  [data     |-> pulled.data,
            cache    |-> [k \in DOMAIN cache \cup {page} |->
                            IF k = page THEN pulled.data ELSE cache[k]],
            consumed |-> pulled.consumed]

\* The history of pulls after get_page(page)
Pulled(page) ==
  IF source_kind = "iterator" /\ page >= 0 /\ page \notin DOMAIN cache
    THEN Append(pulled_for, page)
    ELSE pulled_for

\* self.get_page(index) of whichever source the paginator holds
get_page(page) ==
  IF source_kind = "list"
    THEN [data |-> ListPageSource_get_page(page), cache |-> cache, consumed |-> consumed]
    ELSE AsyncIteratorPageSource_get_page(page)

\* "\n".join(str(entry) for entry in page)
RECURSIVE Join(_)
Join(page) ==
  IF page = << >> THEN ""
  ELSE IF Len(page) = 1 THEN Str(page[1])
  ELSE Str(page[1]) \o "\n" \o Join(Tail(page))

\* format_page: ListPageSource joins the entries' strings; the iterator source of
\* tests/__init__.py (MySource) returns an empty discord.Embed().
format_page(page) ==
  IF source_kind = "list"
    THEN [embed |-> FALSE, text |-> Join(page)]
    ELSE [embed |-> TRUE, text |-> ""]

NoPage == [embed |-> FALSE, text |-> ""]

\* get_num_entries: len(self.entries) for a list; for the iterator source the
\* subclass reports a fixed count (MySource: return 10).
get_num_entries == IF source_kind = "list" THEN Len(entries) ELSE num_entries

\* Mutant of PageSource.prepare_page: current_page is assigned before the page
\* is looked at.
prepare_page_cursor_first(index) ==
  LET got == get_page(index)
  IN  IF got.data = << >> \/ Len(got.data) = 0
        THEN [raised |-> TRUE, formatted |-> FALSE, page |-> NoPage,
              current_page |-> index,
              cache |-> got.cache, consumed |-> got.consumed]
        ELSE [raised |-> FALSE, formatted |-> TRUE, page |-> format_page(got.data),
              current_page |-> index,
              cache |-> got.cache, consumed |-> got.consumed]

\* PageSource.prepare_page: whether NothingOnThatPage is raised, whether
\* format_page was called, the formatted page, and current_page, the cache and
\* the iterator position afterwards.
prepare_page(index) ==
  LET got == get_page(index)
  IN  IF got.data = << >> \/ Len(got.data) = 0
        THEN [raised |-> TRUE, formatted |-> FALSE, page |-> NoPage,
              current_page |-> current_page,
              cache |-> got.cache, consumed |-> got.consumed]
        ELSE [raised |-> FALSE, formatted |-> TRUE, page |-> format_page(got.data),
              current_page |-> index,
              cache |-> got.cache, consumed |-> got.consumed]

(* ---------------------------- the paginator ---------------------------- *)

\* View.add_item / the Button.disabled setter
add_item(view, b) == [view EXCEPT !.children = Append(@, b)]
set_disabled(view, b, v) == [view EXCEPT !.disabled[b] = v]

\* fill_items with its two comparisons against total_entries as parameters:
\* single_page (nothing is attached) and at_end (next and last are disabled).
fill_items_with(single_page, at_end, cp, view) ==
  IF single_page THEN view
  ELSE
    LET visible_items == (cp + 1) * per_page
        v1 == IF allow_first_and_last
                THEN set_disabled(add_item(view, "go_to_first_page"),
                                  "go_to_first_page", visible_items <= per_page)
                ELSE view
        v2 == add_item(add_item(v1, "go_to_previous_page"), "go_to_next_page")
        v3 == set_disabled(v2, "go_to_previous_page", cp = 0)
        v4 == set_disabled(v3, "go_to_next_page", at_end)
        v5 == IF allow_first_and_last
                THEN set_disabled(add_item(v4, "go_to_last_page"),
                                  "go_to_last_page", at_end)
                ELSE v4
    IN  add_item(v5, "quit_pagination")

\* Mutant of fill_items: next and last are disabled when visible_items >
\* total_entries (for >=).
fill_items_at_end_strict(total_entries, cp, view) ==
  fill_items_with(total_entries <= per_page,
                  (cp + 1) * per_page > total_entries, cp, view)

\* Mutant of fill_items: nothing is attached when total_entries < per_page
\* (for <=).
fill_items_single_page_strict(total_entries, cp, view) ==
  fill_items_with(total_entries < per_page,
                  (cp + 1) * per_page >= total_entries, cp, view)

\* Paginator.fill_items, on a view [children, disabled] with the cursor at cp
fill_items(total_entries, cp, view) ==
  IF total_entries <= per_page THEN view
  ELSE
    LET visible_items == (cp + 1) * per_page
        v1 == IF allow_first_and_last
                THEN set_disabled(add_item(view, "go_to_first_page"),
                                  "go_to_first_page", visible_items <= per_page)
                ELSE view
        v2 == add_item(add_item(v1, "go_to_previous_page"), "go_to_next_page")
        v3 == set_disabled(v2, "go_to_previous_page", cp = 0)
        v4 == set_disabled(v3, "go_to_next_page", visible_items >= total_entries)
        v5 == IF allow_first_and_last
                THEN set_disabled(add_item(v4, "go_to_last_page"),
                                  "go_to_last_page", visible_items >= total_entries)
                ELSE v4
    IN  add_item(v5, "quit_pagination")

\* Mutant of get_page_index: the last page by floor division.
get_page_index_floor(page) ==
  IF page = CURRENT_PAGE THEN current_page
  ELSE IF page = NEXT_PAGE THEN current_page + 1
  ELSE IF page = PREVIOUS_PAGE THEN current_page - 1
  ELSE IF page = LAST_PAGE THEN get_num_entries \div per_page
  ELSE 0

\* Paginator.get_page_index
get_page_index(page) ==
  IF page = CURRENT_PAGE THEN current_page
  ELSE IF page = NEXT_PAGE THEN current_page + 1
  ELSE IF page = PREVIOUS_PAGE THEN current_page - 1
  ELSE IF page = LAST_PAGE THEN Ceil(get_num_entries, per_page) - 1
  ELSE 0

\* kwargs of the reply / edit_message call: embed=... or content=str(...)
Kwargs(formatted_page) ==
  IF formatted_page.embed
    THEN [key |-> "embed", value |-> formatted_page.text]
    ELSE [key |-> "content", value |-> formatted_page.text]

\* what the channel shows once a render with these kwargs and this view arrived
Render(kwargs, view) ==
  [key |-> kwargs.key, value |-> kwargs.value,
   children |-> view.children, disabled |-> view.disabled]

NoRender ==
  [key |-> None, value |-> "", children |-> << >>,
   disabled |-> [b \in ButtonSet |-> FALSE]]

\* The record of a call: whose interaction it served, the index it resolved or
\* was given, how it ended, which render call it made, whether format_page ran,
\* and the page get_page returned.
Op(op, user, index, result, render, formatted, data) ==
  [op |-> op, user |-> user, index |-> index, result |-> result,
   render |-> render, formatted |-> formatted, data |-> data]

\* Mutant of Paginator.send_page: when the reply / edit_message call fails the
\* cursor and the buttons are put back as they were before the call.
send_page_rollback(interaction, page, transport_ok) ==
  LET inter      == IF interaction # None THEN interaction ELSE ctx_interaction
      page_index == get_page_index(page)
      prep       == prepare_page(page_index)
      view       == fill_items(get_num_entries, prep.current_page,
                               [children |-> << >>, disabled |-> disabled])
      kwargs     == Kwargs(prep.page)
      render     == IF message = None THEN "send"
                    ELSE IF inter # None THEN "edit" ELSE "none"
      delivered  == render # "none" /\ transport_ok
      failed     == render # "none" /\ ~transport_ok
  IN  /\ cache' = prep.cache
      /\ consumed' = prep.consumed
      /\ pulled_for' = Pulled(page_index)
      /\ current_page' = IF failed THEN current_page ELSE prep.current_page
      /\ UNCHANGED <<sourceVars, tasks, allow_first_and_last, ctx_interaction, stopped>>
      /\ IF prep.raised
           THEN /\ UNCHANGED <<message, children, disabled, shown>>
                /\ lastOp' = Op("send_page", inter, page_index,
                                "NothingOnThatPage", "none", FALSE, << >>)
           ELSE /\ children' = IF failed THEN children ELSE view.children
                /\ disabled' = IF failed THEN disabled ELSE view.disabled
                /\ message' = IF render = "send" /\ transport_ok THEN "message" ELSE message
                /\ shown' = IF delivered THEN Render(kwargs, view) ELSE shown
                /\ lastOp' = Op("send_page", inter, page_index,
                                IF failed THEN "TransportFailure" ELSE "ok",
                                render, TRUE, << >>)

\* Paginator.send_page(interaction, page); transport_ok: whether the reply /
\* edit_message call of the render collaborator succeeds.
send_page(interaction, page, transport_ok) ==
  LET inter      == IF interaction # None THEN interaction ELSE ctx_interaction
      page_index == get_page_index(page)
      prep       == prepare_page(page_index)
      view       == fill_items(get_num_entries, prep.current_page,
                               [children |-> << >>, disabled |-> disabled])
      kwargs     == Kwargs(prep.page)
      render     == IF message = None THEN "send"
                    ELSE IF inter # None THEN "edit" ELSE "none"
      delivered  == render # "none" /\ transport_ok
  IN  /\ cache' = prep.cache
      /\ consumed' = prep.consumed
      /\ pulled_for' = Pulled(page_index)
      /\ current_page' = prep.current_page
      /\ UNCHANGED <<sourceVars, tasks, allow_first_and_last, ctx_interaction, stopped>>
      /\ IF prep.raised
           THEN /\ UNCHANGED <<message, children, disabled, shown>>
                /\ lastOp' = Op("send_page", inter, page_index,
                                "NothingOnThatPage", "none", FALSE, << >>)
           ELSE /\ children' = view.children
                /\ disabled' = view.disabled
                /\ message' = IF render = "send" /\ transport_ok THEN "message" ELSE message
                /\ shown' = IF delivered THEN Render(kwargs, view) ELSE shown
                /\ lastOp' = Op("send_page", inter, page_index,
                                IF render # "none" /\ ~transport_ok
                                  THEN "TransportFailure" ELSE "ok",
                                render, TRUE, << >>)

\* Mutant of Paginator.quit: only the navigation buttons are disabled, the quit
\* button is left as it was.
quit_disabled_navigation_only ==
  [b \in ButtonSet |->
     IF b # "quit_pagination" /\ (\E i \in 1..Len(children) : children[i] = b)
       THEN TRUE ELSE disabled[b]]

\* Paginator.quit: the disabled flags afterwards
quit_disabled ==
  [b \in ButtonSet |->
     IF \E i \in 1..Len(children) : children[i] = b THEN TRUE ELSE disabled[b]]

\* await paginator.quit()
quit ==
  /\ disabled' = quit_disabled
  /\ stopped' = TRUE
  /\ lastOp' = Op("quit", None, 0, "ok", "none", FALSE, << >>)
  /\ UNCHANGED <<sourceVars, tasks, current_page, consumed, cache, pulled_for, allow_first_and_last,
                 ctx_interaction, message, children, shown>>

\* A button callback runs when the host dispatches a press of that button to
\* the view: the view was sent with a message (view=self), the message shows the
\* button enabled, and View.stop() has not removed the view from the host's
\* dispatch.
Dispatched(b) ==
  /\ message # None
  /\ ~stopped
  /\ \E i \in 1..Len(shown.children) : shown.children[i] = b
  /\ ~shown.disabled[b]

go_to_first_page(user, transport_ok) ==
  Dispatched("go_to_first_page") /\ send_page(user, FIRST_PAGE, transport_ok)

go_to_previous_page(user, transport_ok) ==
  Dispatched("go_to_previous_page") /\ send_page(user, PREVIOUS_PAGE, transport_ok)

go_to_next_page(user, transport_ok) ==
  Dispatched("go_to_next_page") /\ send_page(user, NEXT_PAGE, transport_ok)

go_to_last_page(user, transport_ok) ==
  Dispatched("go_to_last_page") /\ send_page(user, LAST_PAGE, transport_ok)

\* Paginator.quit_pagination: quit(), then edit_message(view=self)
quit_pagination(user, transport_ok) ==
  /\ Dispatched("quit_pagination")
  /\ disabled' = quit_disabled
  /\ stopped' = TRUE
  /\ shown' = IF transport_ok
                THEN [shown EXCEPT !.children = children, !.disabled = quit_disabled]
                ELSE shown
  /\ lastOp' = Op("quit_pagination", user, 0,
                  IF transport_ok THEN "ok" ELSE "TransportFailure",
                  "edit", FALSE, << >>)
  /\ UNCHANGED <<sourceVars, tasks, current_page, consumed, cache, pulled_for, allow_first_and_last,
                 ctx_interaction, message, children>>

(* --------------------------- specifications ---------------------------- *)

\* The event loop runs at most this many send_page coroutines of one session
\* at a time here.
TaskIds == {1, 2}

\* No coroutine: what a task slot holds before a press is dispatched to it.
\* A coroutine's record: pc, the point it is suspended at ("pull": in the
\* async for of get_page, "render": in edit_message, "done": returned or
\* raised); the button pressed; the cursor it read and the index it resolved;
\* the locals data and counter of get_page; the payload handed to
\* edit_message; how it ended; and whether it began while another one was
\* suspended.
IdleTask ==
  [pc |-> "idle", button |-> None, from |-> 0, index |-> 0, data |-> << >>,
   counter |-> 0, payload |-> NoRender, result |-> "none", overlapped |-> FALSE]

\* A freshly constructed source and Paginator: cursor 0, nothing pulled or
\* cached, no message, the five buttons attached and enabled.
Constructed ==
  /\ current_page = 0
  /\ consumed = 0
  /\ cache = << >>
  /\ pulled_for = << >>
  /\ message = None
  /\ children = Buttons
  /\ disabled = [b \in ButtonSet |-> FALSE]
  /\ stopped = FALSE
  /\ shown = NoRender
  /\ tasks = [t \in TaskIds |-> IdleTask]
  /\ lastOp = Op("init", None, 0, "ok", "none", FALSE, << >>)

\* ListPageSource(entries, per_page)
ListSource(max_len, max_per_page) ==
  /\ source_kind = "list"
  /\ \E n \in 0..max_len : entries = Range(n)
  /\ per_page \in 1..max_per_page
  /\ num_entries = Len(entries)

\* MySource(iterator, per_page): an AsyncIteratorPageSource over a generator
\* that yields range(n), whose get_num_entries reports a fixed count.
IteratorSource ==
  /\ source_kind = "iterator"
  /\ \E n \in 0..MaxYield : entries = Range(n)
  /\ per_page \in 1..MaxPerPage
  /\ num_entries \in 0..MaxEntries

\* Paginator(source, allow_first_and_last=...), with ctx set by the command
Init ==
  /\ ListSource(MaxEntries, MaxPerPage) \/ IteratorSource
  /\ allow_first_and_last \in BOOLEAN
  /\ ctx_interaction \in {None, Owner}
  /\ Constructed

\* The calls on a session: the command that owns it calls send_page (with its
\* own interaction or none) and quit, the host runs the button callbacks for
\* whoever pressed. The render collaborator delivers every reply / edit_message
\* here.
Next ==
  \/ \E i \in {None, Owner}, p \in PageGoTo : send_page(i, p, TRUE)
  \/ \E u \in Users : go_to_first_page(u, TRUE)
  \/ \E u \in Users : go_to_previous_page(u, TRUE)
  \/ \E u \in Users : go_to_next_page(u, TRUE)
  \/ \E u \in Users : go_to_last_page(u, TRUE)
  \/ \E u \in Users : quit_pagination(u, TRUE)
  \/ quit

Spec == Init /\ [][Next]_vars

(* The idle timeout of the view (timeout=180 by default).                    *)

\* The timeout given to View.__init__ elapses with no press dispatched: the
\* host stops the view and calls on_timeout(), which Paginator does not
\* override (the inherited one does nothing).
on_timeout ==
  /\ message # None
  /\ ~stopped
  /\ stopped' = TRUE
  /\ lastOp' = Op("on_timeout", None, 0, "ok", "none", FALSE, << >>)
  /\ UNCHANGED <<sourceVars, tasks, current_page, consumed, cache, pulled_for, allow_first_and_last,
                 ctx_interaction, message, children, disabled, shown>>

NextTimeout ==
  \/ Next
  \/ on_timeout

SpecTimeout == Init /\ [][NextTimeout]_vars

(* Sessions whose render collaborator can fail: ctx.reply and               *)
(* interaction.response.edit_message either deliver or raise.               *)

NextTransport ==
  \/ \E i \in {None, Owner}, p \in PageGoTo, ok \in BOOLEAN : send_page(i, p, ok)
  \/ \E u \in Users, ok \in BOOLEAN : go_to_first_page(u, ok)
  \/ \E u \in Users, ok \in BOOLEAN : go_to_previous_page(u, ok)
  \/ \E u \in Users, ok \in BOOLEAN : go_to_next_page(u, ok)
  \/ \E u \in Users, ok \in BOOLEAN : go_to_last_page(u, ok)
  \/ \E u \in Users, ok \in BOOLEAN : quit_pagination(u, ok)

SpecTransport == Init /\ [][NextTransport]_vars

(* Button presses whose send_page coroutines overlap: the event loop starts  *)
(* a callback for every press the host dispatches and switches between the   *)
(* coroutines where they await the iterator or the render collaborator.      *)

\* The navigation target a button dispatches
Target(b) ==
  IF b = "go_to_first_page" THEN FIRST_PAGE
  ELSE IF b = "go_to_previous_page" THEN PREVIOUS_PAGE
  ELSE IF b = "go_to_next_page" THEN NEXT_PAGE
  ELSE LAST_PAGE

\* Mutant of the tail of PageSource.prepare_page: the cursor is set one past
\* the index.
prepare_page_with_one_past(index, page) ==
  IF page = << >> \/ Len(page) = 0
    THEN [raised |-> TRUE, page |-> NoPage, current_page |-> current_page]
    ELSE [raised |-> FALSE, page |-> format_page(page), current_page |-> index + 1]

\* PageSource.prepare_page from the point where get_page has returned `page`
prepare_page_with(index, page) ==
  IF page = << >> \/ Len(page) = 0
    THEN [raised |-> TRUE, page |-> NoPage, current_page |-> current_page]
    ELSE [raised |-> FALSE, page |-> format_page(page), current_page |-> index]

InFlight(t) == tasks[t].pc \in {"pull", "render"}

\* send_page of task t from the return of get_page to its next suspension:
\* the rest of prepare_page, clear_items / fill_items, and the call of
\* interaction.response.edit_message, which builds its payload from kwargs and
\* the view before it awaits the request.
Resume(t, task, page) ==
  LET prep   == prepare_page_with(task.index, page)
      view   == fill_items(get_num_entries, prep.current_page,
                           [children |-> << >>, disabled |-> disabled])
  IN  /\ current_page' = prep.current_page
      /\ IF prep.raised
           THEN /\ tasks' = [tasks EXCEPT ![t] =
                               [task EXCEPT !.pc = "done", !.data = page,
                                            !.result = "NothingOnThatPage"]]
                /\ UNCHANGED <<children, disabled>>
           ELSE /\ tasks' = [tasks EXCEPT ![t] =
                               [task EXCEPT !.pc = "render", !.data = page,
                                            !.payload = Render(Kwargs(prep.page), view)]]
                /\ children' = view.children
                /\ disabled' = view.disabled

\* The host dispatches a press of button b and the event loop starts its
\* callback as task t: send_page runs get_page_index and enters get_page; it
\* goes on to edit_message unless get_page has to pull from the iterator.
Begin(t, b) ==
  LET index == get_page_index(Target(b))
      task  == [IdleTask EXCEPT !.button = b, !.from = current_page, !.index = index,
                                !.overlapped = \E o \in TaskIds \ {t} : InFlight(o)]
  IN  /\ ~InFlight(t)
      /\ Dispatched(b)
      /\ IF source_kind = "iterator" /\ index >= 0 /\ index \notin DOMAIN cache
           THEN /\ tasks' = [tasks EXCEPT ![t] = [task EXCEPT !.pc = "pull"]]
                /\ UNCHANGED <<current_page, children, disabled>>
           ELSE Resume(t, task, get_page(index).data)
      /\ UNCHANGED <<sourceVars, consumed, cache, pulled_for, allow_first_and_last,
                     ctx_interaction, message, stopped, shown, lastOp>>

\* One turn of the async for loop of AsyncIteratorPageSource.get_page in task
\* t: the iterator's __anext__ completes with the next item or with
\* StopAsyncIteration; after the loop the page is stored in the cache and
\* send_page goes on.
PullStep(t) ==
  LET task   == tasks[t]
      store(data) ==
        /\ cache' = [k \in DOMAIN cache \cup {task.index} |->
                       IF k = task.index THEN data ELSE cache[k]]
        /\ pulled_for' = IF task.index \in DOMAIN cache
                           THEN pulled_for ELSE Append(pulled_for, task.index)
        /\ Resume(t, task, data)
  IN  /\ task.pc = "pull"
      /\ IF consumed >= Len(entries)
           THEN /\ UNCHANGED consumed
                /\ store(task.data)
           ELSE LET data2    == Append(task.data, entries[consumed + 1])
                    counter2 == task.counter + 1
                IN  /\ consumed' = consumed + 1
                    /\ IF counter2 = per_page
                         THEN store(data2)
                         ELSE /\ tasks' = [tasks EXCEPT ![t] =
                                             [task EXCEPT !.data = data2,
                                                          !.counter = counter2]]
                              /\ UNCHANGED <<cache, pulled_for, current_page,
                                             children, disabled>>
      /\ UNCHANGED <<sourceVars, allow_first_and_last, ctx_interaction, message,
                     stopped, shown, lastOp>>

\* The edit_message request of task t completes: the channel shows its payload
\* and send_page returns.
RenderDone(t) ==
  /\ tasks[t].pc = "render"
  /\ shown' = tasks[t].payload
  /\ tasks' = [tasks EXCEPT ![t] = [@ EXCEPT !.pc = "done", !.result = "ok"]]
  /\ UNCHANGED <<sourceVars, current_page, consumed, cache, pulled_for,
                 allow_first_and_last, ctx_interaction, message, children, disabled,
                 stopped, lastOp>>

\* The command starts the session with send_page() and waits for it.
Start ==
  /\ message = None
  /\ send_page(None, CURRENT_PAGE, TRUE)

\* An AsyncIteratorPageSource whose get_num_entries reports what the iterator
\* yields, over an iterator that yields range(n).
CountedIteratorSource ==
  /\ source_kind = "iterator"
  /\ \E n \in 0..MaxConcYield : entries = Range(n)
  /\ per_page \in 1..MaxPerPage
  /\ num_entries = Len(entries)

\* Paginator(source), allow_first_and_last left at its default (False), in a
\* context that carries an interaction.
InitConc ==
  /\ ListSource(MaxEntries, MaxPerPage) \/ CountedIteratorSource
  /\ allow_first_and_last = FALSE
  /\ ctx_interaction = Owner
  /\ Constructed

NextConc ==
  \/ Start
  \/ \E t \in TaskIds, b \in Navigation : Begin(t, b)
  \/ \E t \in TaskIds : PullStep(t)
  \/ \E t \in TaskIds : RenderDone(t)

SpecConc == InitConc /\ [][NextConc]_vars

(* Direct calls on a source and on Paginator.get_page_index, on lists as long *)
(* as MaxListLen and on iterators.                                            *)

Indices == (-MaxIndex)..MaxIndex

\* await source.get_page(i)
GetPageCall(i) ==
  LET got == get_page(i)
  IN  /\ cache' = got.cache
      /\ consumed' = got.consumed
      /\ pulled_for' = Pulled(i)
      /\ lastOp' = Op("get_page", None, i, "ok", "none", FALSE, got.data)
      /\ UNCHANGED <<sourceVars, tasks, current_page, viewVars>>

\* await source.prepare_page(i)
PreparePageCall(i) ==
  LET prep == prepare_page(i)
  IN  /\ cache' = prep.cache
      /\ consumed' = prep.consumed
      /\ pulled_for' = Pulled(i)
      /\ current_page' = prep.current_page
      /\ lastOp' = Op("prepare_page", None, i,
                      IF prep.raised THEN "NothingOnThatPage" ELSE "ok",
                      "none", prep.formatted, << >>)
      /\ UNCHANGED <<sourceVars, tasks, viewVars>>

\* await paginator.get_page_index(target)
GetPageIndexCall(target) ==
  /\ lastOp' = Op("get_page_index", None, get_page_index(target), "ok", "none",
                  FALSE, << >>)
  /\ UNCHANGED <<sourceVars, tasks, current_page, consumed, cache, pulled_for, viewVars>>

InitApi ==
  /\ ListSource(MaxListLen, MaxListPerPage) \/ IteratorSource
  /\ allow_first_and_last = FALSE
  /\ ctx_interaction = None
  /\ Constructed

NextApi ==
  \/ \E i \in Indices : GetPageCall(i)
  \/ \E i \in Indices : PreparePageCall(i)
  \/ \E target \in PageGoTo : GetPageIndexCall(target)

SpecApi == InitApi /\ [][NextApi]_vars

(* ------------------------------ the claims ----------------------------- *)

Attached(b) == \E i \in 1..Len(children) : children[i] = b
Enabled(b) == Attached(b) /\ ~disabled[b]

\* entries[k*per_page : min(N, (k+1)*per_page)] for k >= 0: page k of the
\* logical collection
LogicalPage(k) ==
  IF k * per_page >= Len(entries) THEN << >>
  ELSE SubSeq(entries, k * per_page + 1, Min(Len(entries), (k + 1) * per_page))

\* C1: a dispatch whose requester is not the session owner leaves current_page
\* and the attached / enabled commands unchanged and invokes neither send nor
\* edit.
C1_NonOwnerDispatchChangesNothing ==
  [][(lastOp'.op = "send_page" /\ lastOp'.user = Other) =>
       /\ current_page' = current_page
       /\ children' = children
       /\ disabled' = disabled
       /\ lastOp'.render = "none"]_vars

\* C2: prepare_page(index) raises NothingOnThatPage exactly when get_page(index)
\* is empty; a failing call leaves current_page as it was and does not call
\* format_page, a succeeding call formats the page and sets current_page to index.
C2_PreparePageFailsIffEmpty ==
  [][lastOp'.op = "prepare_page" =>
         LET i    == lastOp'.index
             page == get_page(i).data
         IN  /\ (lastOp'.result = "NothingOnThatPage") <=> (Len(page) = 0)
             /\ Len(page) = 0 => (current_page' = current_page /\ ~lastOp'.formatted)
             /\ Len(page) > 0 => (current_page' = i /\ lastOp'.formatted
                                  /\ lastOp'.result = "ok")]_vars

\* C2 witness: a failing prepare_page after an earlier one had moved the cursor
\* to page 1.
C2_Witness ==
  /\ lastOp.op = "prepare_page"
  /\ lastOp.result = "NothingOnThatPage"
  /\ current_page = 1
  /\ lastOp.index # 1

\* C3: ListPageSource.get_page(i) is entries[i*p : min(N, (i+1)*p)] for
\* 0 <= i < ceil(N/p), and empty for i >= ceil(N/p) and for every negative i.
C3_ListSlicing ==
  (source_kind = "list" /\ lastOp.op = "get_page") =>
    LET i == lastOp.index
        N == Len(entries)
    IN  /\ (0 <= i /\ i * per_page < N) => lastOp.data = LogicalPage(i)
        /\ (i * per_page >= N \/ i < 0) => lastOp.data = << >>

\* C5: for the iterator source, get_page(k) of a cached k returns the cached
\* page and pulls nothing; get_page(k) for k < 0 returns the empty page and pulls
\* nothing; and while pages were first requested in the order 0, 1, 2, ...,
\* get_page(k) returns items [k*per_page, (k+1)*per_page) of what the producer
\* yields.
InOrder(s) == \A j \in 1..Len(s) : s[j] = j - 1

C5_CacheHitsAndInOrderPages ==
  [][(source_kind = "iterator" /\ lastOp'.op = "get_page") =>
       LET k == lastOp'.index
       IN
         /\ k \in DOMAIN cache =>
              (lastOp'.data = cache[k] /\ consumed' = consumed /\ cache' = cache)
         /\ k < 0 =>
              (lastOp'.data = << >> /\ consumed' = consumed /\ cache' = cache)
         /\ (k >= 0 /\ InOrder(pulled_for')) => lastOp'.data = LogicalPage(k)]_vars

\* C5 witness: page 0 is asked for again after pages 0 and 1 were pulled in
\* order, and the full cached page comes back.
C5_Witness ==
  /\ source_kind = "iterator"
  /\ lastOp.op = "get_page"
  /\ lastOp.index = 0
  /\ pulled_for = <<0, 1>>
  /\ Len(cache[1]) > 0
  /\ lastOp.data = cache[0]
  /\ Len(lastOp.data) = per_page

\* C6: for the iterator source, after get_page calls in any index order,
\* get_page(index) for index >= 0 returns items [index*per_page,
\* (index+1)*per_page) of what the producer yields (fewer at the end).
C6_IteratorPagesInAnyOrder ==
  (source_kind = "iterator" /\ lastOp.op = "get_page" /\ lastOp.index >= 0) =>
    lastOp.data = LogicalPage(lastOp.index)

\* C4: after a successful dispatch with totalEntries > per_page, with
\* visible = (current_page + 1) * per_page: "previous" is enabled iff
\* current_page > 0, "next" is enabled iff visible < totalEntries, and with
\* allow_first_and_last "first" is enabled iff visible > per_page and "last" is
\* enabled iff visible < totalEntries.
C4_AvailabilityAfterDispatch ==
  (lastOp.op = "send_page" /\ lastOp.result = "ok" /\ get_num_entries > per_page) =>
    LET visible == (current_page + 1) * per_page
    IN  /\ Enabled("go_to_previous_page") <=> current_page > 0
        /\ Enabled("go_to_next_page") <=> visible < get_num_entries
        /\ allow_first_and_last =>
             /\ Enabled("go_to_first_page") <=> visible > per_page
             /\ Enabled("go_to_last_page") <=> visible < get_num_entries

\* C4 witness: a dispatch has just landed on the last page of a collection of
\* several pages, with first and last allowed.
C4_Witness ==
  /\ lastOp.op = "send_page"
  /\ lastOp.result = "ok"
  /\ allow_first_and_last
  /\ get_num_entries > per_page
  /\ current_page > 0
  /\ (current_page + 1) * per_page >= get_num_entries
  /\ Enabled("go_to_first_page")
  /\ ~Enabled("go_to_next_page")

\* C7: a dispatch that resolves to an index whose page is empty raises
\* NothingOnThatPage and leaves current_page, the attached commands, their
\* disabled flags and the message as they were, and calls neither send nor edit.
C7_EmptyPageDispatchChangesNothing ==
  [][(lastOp'.op = "send_page" /\ Len(get_page(lastOp'.index).data) = 0) =>
         /\ lastOp'.result = "NothingOnThatPage"
         /\ lastOp'.render = "none"
         /\ current_page' = current_page
         /\ children' = children
         /\ disabled' = disabled
         /\ message' = message
         /\ shown' = shown]_vars

\* C7 witness: Next was dispatched on the last page of a started session that
\* shows navigation commands, and failed.
C7_Witness ==
  /\ lastOp.op = "send_page"
  /\ lastOp.result = "NothingOnThatPage"
  /\ lastOp.index = current_page + 1
  /\ message # None
  /\ Enabled("go_to_previous_page")

\* C8: once quit() has run, every dispatch leaves current_page, the message and
\* every command's disabled flag unchanged and renders nothing; no command is
\* enabled again after quit.
C8_QuitIsTerminal ==
  [][(stopped /\ lastOp'.op = "send_page") =>
       /\ current_page' = current_page
       /\ message' = message
       /\ disabled' = disabled
       /\ lastOp'.render = "none"]_vars

\* C9: get_page_index does not clamp: Current -> current_page, Next ->
\* current_page + 1, Previous -> current_page - 1, First -> 0, Last ->
\* ceil(get_num_entries / per_page) - 1, that is the L with
\* L*per_page < N <= (L+1)*per_page; for a list with N >= 1 entries page L is
\* the last page that is not empty, and for N = 0 it is -1.
C9_PageIndexResolution ==
  [][\A target \in PageGoTo :
       GetPageIndexCall(target) =>
         LET index == lastOp'.index
             N     == get_num_entries
         IN  /\ target = CURRENT_PAGE => index = current_page
             /\ target = NEXT_PAGE => index = current_page + 1
             /\ target = PREVIOUS_PAGE => index = current_page - 1
             /\ target = FIRST_PAGE => index = 0
             /\ target = LAST_PAGE =>
                  /\ index * per_page < N
                  /\ N <= (index + 1) * per_page
                  /\ N = 0 => index = -1
                  /\ (source_kind = "list" /\ N >= 1) =>
                       /\ ListPageSource_get_page(index) # << >>
                       /\ ListPageSource_get_page(index + 1) = << >>]_vars

\* C9 witness: Last has been resolved to 2 for a list of 25 entries, 10 per
\* page, with the cursor on page 0.
C9_Witness ==
  /\ source_kind = "list"
  /\ Len(entries) = 25
  /\ per_page = 10
  /\ current_page = 0
  /\ lastOp.op = "get_page_index"
  /\ lastOp.index = 2

\* C10: after a successful dispatch the navigation commands are attached iff
\* totalEntries > per_page (first and last only with allow_first_and_last), and
\* quit is attached whenever a navigation command is; a source that reports no
\* more than per_page entries gets no navigation command however many items its
\* producer holds.
C10_NavigationAttachedIffSeveralPages ==
  (lastOp.op = "send_page" /\ lastOp.result = "ok") =>
    /\ Attached("go_to_previous_page") <=> get_num_entries > per_page
    /\ Attached("go_to_next_page") <=> get_num_entries > per_page
    /\ Attached("go_to_first_page") <=> (get_num_entries > per_page /\ allow_first_and_last)
    /\ Attached("go_to_last_page") <=> (get_num_entries > per_page /\ allow_first_and_last)
    /\ (\E b \in Navigation : Attached(b)) => Attached("quit_pagination")

\* C10 witness: an iterator source that reports no more than per_page entries
\* while its producer holds more, after a successful dispatch: nothing attached.
C10_Witness ==
  /\ source_kind = "iterator"
  /\ lastOp.op = "send_page"
  /\ lastOp.result = "ok"
  /\ num_entries <= per_page
  /\ Len(entries) > per_page
  /\ children = << >>

\* C11: a session whose idle timeout elapses goes to Quit on its own: all its
\* attached commands are disabled and one final render shows them disabled.
C11_TimeoutQuits ==
  lastOp.op = "on_timeout" =>
    /\ \A b \in ButtonSet : Attached(b) => disabled[b]
    /\ shown.children = children
    /\ \A b \in ButtonSet : Attached(b) => shown.disabled[b]

\* C12: dispatches of one session are serialized: a second press does not
\* begin its cursor computation while an earlier dispatch is suspended in its
\* fetch step or its render step, so at most one dispatch is ever in flight.
C12_DispatchesSerialized ==
  \A t1, t2 \in TaskIds : (InFlight(t1) /\ InFlight(t2)) => t1 = t2

\* C13: two Next dispatches that were in flight together, both read cursor c and both
\* succeeded leave current_page = c + 1, where two Next dispatches run one
\* after the other from c, in either order, leave c + 2.
C13_OverlappingNextLosesAnAdvance ==
  \A t1, t2 \in TaskIds :
    (/\ t1 # t2
     /\ tasks[t1].pc = "done" /\ tasks[t2].pc = "done"
     /\ tasks[t1].button = "go_to_next_page" /\ tasks[t2].button = "go_to_next_page"
     /\ tasks[t1].result = "ok" /\ tasks[t2].result = "ok"
     /\ tasks[t2].overlapped
     /\ tasks[t1].from = tasks[t2].from)
    => current_page = tasks[t1].from + 1

\* C13 witness: both Next dispatches were in flight together from cursor c,
\* both pulled a non-empty page for index c + 1 and rendered, and the cursor
\* stands at c + 1 with two pages consumed after page c.
C13_Witness ==
  /\ source_kind = "iterator"
  /\ tasks[1].pc = "done" /\ tasks[2].pc = "done"
  /\ tasks[1].button = "go_to_next_page" /\ tasks[2].button = "go_to_next_page"
  /\ tasks[1].result = "ok" /\ tasks[2].result = "ok"
  /\ tasks[2].overlapped
  /\ tasks[1].from = tasks[2].from
  /\ tasks[1].data # << >> /\ tasks[2].data # << >>
  /\ tasks[1].data # tasks[2].data
  /\ current_page = tasks[1].from + 1

\* C14: the page cache of the iterator source is append-only: an index present
\* in the cache stays present with the same page, also when two get_page(k)
\* calls for an uncached k are in flight together.
C14_CacheAppendOnly ==
  [][\A k \in DOMAIN cache : k \in DOMAIN cache' /\ cache'[k] = cache[k]]_vars

\* C15: when prepare_page succeeds and the send or edit of the render
\* collaborator fails, the failure reaches the caller and nothing is rolled
\* back: current_page is the newly resolved index and the buttons are the ones
\* recomputed for it, while the channel still shows what it showed before.
C15_NoRollbackOnTransportFailure ==
  [][(lastOp'.op = "send_page" /\ lastOp'.result = "TransportFailure") =>
       LET view == fill_items(get_num_entries, lastOp'.index,
                              [children |-> << >>, disabled |-> disabled])
       IN  /\ lastOp'.formatted
           /\ lastOp'.render \in {"send", "edit"}
           /\ current_page' = lastOp'.index
           /\ children' = view.children
           /\ disabled' = view.disabled
           /\ shown' = shown
           /\ message' = message]_vars

\* C15 witness: an edit failed after the cursor moved from page 0 to page 1;
\* the channel still shows Previous disabled while the view has it enabled.
C15_Witness ==
  /\ lastOp.op = "send_page"
  /\ lastOp.result = "TransportFailure"
  /\ lastOp.render = "edit"
  /\ current_page = 1
  /\ message # None
  /\ Enabled("go_to_previous_page")
  /\ shown.disabled["go_to_previous_page"]

\* C16: every successful dispatch performs exactly one render: a send that
\* establishes the message while there is none, an edit of that message
\* afterwards; send is never called again and the message never changes once set.
C16_OneRenderPerDispatch ==
  [][(lastOp'.op = "send_page" /\ lastOp'.result = "ok") =>
       IF message = None
         THEN lastOp'.render = "send" /\ message' # None
         ELSE lastOp'.render = "edit" /\ message' = message]_vars

\* C17: quit() disables every attached command and removes none, and leaves
\* current_page and the message unchanged; a quit() right after a quit changes
\* nothing.
C17_QuitDisablesAndIsIdempotent ==
  [][lastOp'.op \in {"quit", "quit_pagination"} =>
       /\ children' = children
       /\ \A b \in ButtonSet : Attached(b) => disabled'[b]
       /\ current_page' = current_page
       /\ message' = message
       /\ (lastOp.op \in {"quit", "quit_pagination"} /\ lastOp'.op = "quit") =>
            (disabled' = disabled /\ stopped' = stopped /\ shown' = shown)]_vars

\* C17 witness: quit() has run on a started session that stands on a later page
\* and has its commands attached, all of them now disabled.
C17_Witness ==
  /\ lastOp.op = "quit"
  /\ message # None
  /\ current_page > 0
  /\ Attached("quit_pagination")
  /\ \A b \in ButtonSet : Attached(b) => disabled[b]

\* C18: over a ListPageSource, in every state a started session reaches by
\* dispatches: dispatching an enabled navigation command does not raise
\* NothingOnThatPage, and dispatching a disabled one raises NothingOnThatPage
\* or leaves current_page where it is.
C18_EnabledCommandsSucceed ==
  (source_kind = "list" /\ message # None /\ ~stopped) =>
    \A b \in Navigation :
      LET prep == prepare_page(get_page_index(Target(b)))
      IN  /\ Enabled(b) => ~prep.raised
          /\ (Attached(b) /\ disabled[b]) =>
               (prep.raised \/ prep.current_page = current_page)

\* C18 witness: a started list session on a middle page with first and last
\* allowed (everything enabled), reached by a dispatch.
C18_Witness ==
  /\ source_kind = "list"
  /\ message # None
  /\ ~stopped
  /\ lastOp.op = "send_page"
  /\ \A b \in Navigation : Enabled(b)

\* C19: over a ListPageSource with N >= 1 entries, after any dispatches,
\* 0 <= current_page <= ceil(N/per_page) - 1 and the page at current_page is
\* not empty.
C19_CursorBounds ==
  (source_kind = "list" /\ Len(entries) >= 1) =>
    /\ 0 <= current_page
    /\ current_page * per_page < Len(entries)
    /\ ListPageSource_get_page(current_page) # << >>

\* C19 witness: Previous has just failed on page 0 of a started list session
\* (the resolved index is -1) and the cursor is still 0.
C19_Witness ==
  /\ source_kind = "list"
  /\ Len(entries) >= 1
  /\ lastOp.op = "send_page"
  /\ lastOp.index = -1
  /\ lastOp.result = "NothingOnThatPage"
  /\ current_page = 0
  /\ message # None

\* The cached pages, concatenated in the order their indices were first asked for
RECURSIVE CachedInOrder(_)
CachedInOrder(n) ==
  IF n = 0 THEN << >> ELSE CachedInOrder(n - 1) \o cache[pulled_for[n]]

\* C20: for the iterator source under serialized get_page calls in any order,
\* the cached pages concatenated in first-request order are exactly the items
\* consumed so far; every cached page has at most per_page items; once a cached
\* page is shorter than per_page the producer is exhausted and every page cached
\* after it is empty.
C20_CacheIsTheConsumedPrefix ==
  source_kind = "iterator" =>
    /\ DOMAIN cache = {pulled_for[j] : j \in 1..Len(pulled_for)}
    /\ CachedInOrder(Len(pulled_for)) = SubSeq(entries, 1, consumed)
    /\ \A k \in DOMAIN cache : Len(cache[k]) <= per_page
    /\ \A j \in 1..Len(pulled_for) :
         Len(cache[pulled_for[j]]) < per_page =>
           /\ consumed = Len(entries)
           /\ \A j2 \in (j + 1)..Len(pulled_for) : cache[pulled_for[j2]] = << >>

\* C20 witness: pages were asked for out of order, the first pull got a short
\* page (the producer ran dry) and a later pull, for an earlier index, got the
\* empty page.
C20_Witness ==
  /\ source_kind = "iterator"
  /\ Len(pulled_for) >= 2
  /\ pulled_for[1] > pulled_for[2]
  /\ Len(cache[pulled_for[1]]) \in 1..(per_page - 1)
  /\ cache[pulled_for[2]] = << >>

====
